---- MODULE Spec2Model ----
(***************************************************************************)
(* Model of the offline map-tile downloader (src/tile_downloader.py):      *)
(* TileDownloader.download_area / download_tile running on a               *)
(* ThreadPoolExecutor, driven by DownloadThread.run and stopped through    *)
(* TileDownloaderGUI.stop_download.                                        *)
(*                                                                         *)
(* Latitudes and longitudes are integers in units of 1e-5 degree.          *)
(***************************************************************************)
EXTENDS Integers, Sequences, FiniteSets, TLC

\* ------------------------------------------------------------------ bounds
MaxWorkers == 2
MaxFaults == 1

\* ------------------------------------------------------- program constants
InFlightFactor == 4
ProgressCadence == 25
HttpOk == 200

\* ---------------------------------------------------------------- TileMath
Pow2(k) == 2 ^ k

\* int(): truncation towards zero of a / b, b > 0
IntTrunc(a, b) == IF a >= 0 THEN a \div b ELSE -((-a) \div b)

\* floor(asinh(tan(radians(lat))) / pi * 10^7), as IEEE doubles give it
MercatorTable ==
    [l \in {-9000000, -8505113, -8505112, -7000000, -100000, 0,
            100000, 7000000, 8505112, 8505113, 9000000} |->
       CASE l = -9000000 -> -121037345
         [] l = -8505113 -> -10000001
         [] l = -8505112 -> -9999995
         [] l = -7000000 -> -5523999
         [] l = -100000  -> -55559
         [] l = 0        -> 0
         [] l = 100000   -> 55558
         [] l = 7000000  -> 5523998
         [] l = 8505112  -> 9999994
         [] l = 8505113  -> 10000000
         [] l = 9000000  -> 121037344]

\* faulty variant: the longitude is not shifted by 180 degrees
lat_lon_to_tile_unshifted(lat, lon, zoom) ==
    LET n == Pow2(zoom)
        x == IntTrunc(lon * n, 36000000)
        y == IntTrunc((10000000 - MercatorTable[lat]) * n, 20000000)
    IN  <<x, y>>

\* faulty variant: the column wraps around at the antimeridian
lat_lon_to_tile_wrapped(lat, lon, zoom) ==
    LET n == Pow2(zoom)
        x == IntTrunc((lon + 18000000) * n, 36000000) % n
        y == IntTrunc((10000000 - MercatorTable[lat]) * n, 20000000)
    IN  <<x, y>>

lat_lon_to_tile(lat, lon, zoom) ==
    LET n == Pow2(zoom)
        x == IntTrunc((lon + 18000000) * n, 36000000)
        y == IntTrunc((10000000 - MercatorTable[lat]) * n, 20000000)
    IN  <<x, y>>

\* faulty variant: the corners are taken in the order given
MinFirst(a, b) == a

Min(a, b) == IF a <= b THEN a ELSE b
Max(a, b) == IF a >= b THEN a ELSE b

\* lines 157-164: the tile range of the bounding box at one zoom
TileRange(lat1, lon1, lat2, lon2, zoom) ==
    LET p1 == lat_lon_to_tile(lat1, lon1, zoom)
        p2 == lat_lon_to_tile(lat2, lon2, zoom)
    IN  [x_min |-> Min(p1[1], p2[1]), x_max |-> Max(p1[1], p2[1]),
         y_min |-> Min(p1[2], p2[2]), y_max |-> Max(p1[2], p2[2])]

TotalTiles(r) == (r.x_max - r.x_min + 1) * (r.y_max - r.y_min + 1)

\* lines 77-81: the tile range estimate_tiles_for_area computes for one zoom
EstimateRange(lat1, lon1, lat2, lon2, zoom) ==
    LET p1 == lat_lon_to_tile(lat1, lon1, zoom)
        p2 == lat_lon_to_tile(lat2, lon2, zoom)
    IN  [x_min |-> Min(p1[1], p2[1]), x_max |-> Max(p1[1], p2[1]),
         y_min |-> Min(p1[2], p2[2]), y_max |-> Max(p1[2], p2[2])]

\* faulty variant: the last column and the last row are not counted
EstimateTilesExclusive(lat1, lon1, lat2, lon2, zoom) ==
    LET r == EstimateRange(lat1, lon1, lat2, lon2, zoom)
    IN  (r.x_max - r.x_min) * (r.y_max - r.y_min)

\* line 83: tiles = (x_max - x_min + 1) * (y_max - y_min + 1)
EstimateTiles(lat1, lon1, lat2, lon2, zoom) ==
    LET r == EstimateRange(lat1, lon1, lat2, lon2, zoom)
    IN  (r.x_max - r.x_min + 1) * (r.y_max - r.y_min + 1)

RECURSIVE SumTiles(_)
SumTiles(counts) ==
    IF counts = <<>> THEN 0 ELSE Head(counts)[2] + SumTiles(Tail(counts))

\* lines 72-86: the per-zoom counts, as (zoom, tiles) pairs, and their total
estimate_tiles_for_area(lat1, lon1, lat2, lon2, zoom_levels) ==
    LET counts == [i \in 1..Len(zoom_levels) |->
                     <<zoom_levels[i],
                       EstimateTiles(lat1, lon1, lat2, lon2, zoom_levels[i])>>]
    IN  [counts |-> counts, total |-> SumTiles(counts)]

RECURSIVE RangeSeq(_, _)
RangeSeq(a, b) == IF a > b THEN <<>> ELSE <<a>> \o RangeSeq(a + 1, b)

RECURSIVE Flatten(_)
Flatten(ss) == IF ss = <<>> THEN <<>> ELSE Head(ss) \o Flatten(Tail(ss))

\* faulty variant: y in the outer loop, x in the inner loop
tile_iter_by_row(r) ==
    LET xs == RangeSeq(r.x_min, r.x_max)
        ys == RangeSeq(r.y_min, r.y_max)
    IN  Flatten([j \in 1..Len(ys) |-> [i \in 1..Len(xs) |-> <<xs[i], ys[j]>>]])

\* tile_iter: x in the outer loop, y in the inner loop
tile_iter(r) ==
    LET xs == RangeSeq(r.x_min, r.x_max)
        ys == RangeSeq(r.y_min, r.y_max)
    IN  Flatten([i \in 1..Len(xs) |-> [j \in 1..Len(ys) |-> <<xs[i], ys[j]>>]])

SeqToSet(s) == {s[i] : i \in 1..Len(s)}

\* ------------------------------------------------------------------- jobs
\* a job is what start_download passes to DownloadThread, with root_ok: the
\* root tile directory can be created
\* a narrow box (one column of tiles), every worker count, several zoom lists
JobsSmall == [bbox : { <<7000000, 100000, -100000, 100000>> },
              zoom_levels : { <<>>, <<0, 1>>, <<1, 1>>, <<1, 2>> },
              max_workers : 0..MaxWorkers, root_ok : BOOLEAN]
\* 2 x 3 tiles, corners given north-east first, one worker
JobsWide == [bbox : { <<7000000, 100000, -100000, -100000>> },
             zoom_levels : { <<2>> }, max_workers : {1}, root_ok : {TRUE}]
\* 7 x 4 tiles, more than the progress cadence, one worker
JobsBig == [bbox : { <<0, -18000000, 7000000, 9000000>> },
            zoom_levels : { <<3>> }, max_workers : {1}, root_ok : {TRUE}]

\* the environment of a run: how many GETs, and how many filesystem calls,
\* may fail, and whether the user may press stop
Hostile == [fault_budget |-> MaxFaults, user_stops |-> TRUE]
Flaky == [fault_budget |-> MaxFaults, user_stops |-> FALSE]
Quiet == [fault_budget |-> 0, user_stops |-> FALSE]

Scenarios == ((JobsSmall \cup JobsWide) \X {Hostile}) \cup (JobsBig \X {Quiet})
ScenariosTwice == ((JobsSmall \cup JobsWide) \X {Flaky})
                  \cup (JobsBig \X {Quiet})

\* many boxes, given by two corners in either order and reaching the poles
\* and the antimeridian; for confirm_estimate alone
Longitudes == {-18000000, -100000, 0, 100000, 9000000, 18000000}
JobsEstimate ==
    [bbox : {<<la1, lo1, la2, lo2>> :
                la1 \in DOMAIN MercatorTable, lo1 \in Longitudes,
                la2 \in DOMAIN MercatorTable, lo2 \in Longitudes},
     zoom_levels : { <<0, 1, 2>>, <<3, 4>> },
     max_workers : {1}, root_ok : BOOLEAN]
ScenariosEstimate == JobsEstimate \X {Quiet}

\* the box from 1 degree south-west to 1 degree north-east of the origin
JobsExample == [bbox : { <<-100000, -100000, 100000, 100000>> },
                zoom_levels : { <<2>> }, max_workers : {1}, root_ok : {TRUE}]
ScenariosPreflight == ScenariosTwice \cup (JobsExample \X {Quiet})

\* where filesystem calls may fail: the narrow box with at most two tiles in
\* a zoom level
JobsFs == {j \in JobsSmall : j.zoom_levels # <<1, 2>>}
ScenariosFs == ((JobsFs \cup JobsWide) \X {Flaky}) \cup (JobsBig \X {Quiet})

\* where termination is checked: the narrow box with one zoom level twice or
\* none, and the large box
JobsLive == {j \in JobsSmall : j.zoom_levels \in {<<>>, <<1, 1>>}}
ScenariosLive == (JobsLive \X {Hostile}) \cup (JobsBig \X {Quiet})

\* where the directories are made step by step: a zoom level of 2 x 2 tiles,
\* walked twice
JobsMkdir == [bbox : { <<7000000, 100000, -100000, -100000>> },
              zoom_levels : { <<1, 1>> },
              max_workers : 1..MaxWorkers, root_ok : {TRUE}]
ScenariosMkdir == JobsMkdir \X {Quiet}

\* worker threads the pool could ever hold, deliberately more than it may use
ThreadIds == 1..(InFlightFactor * MaxWorkers)

\* what one HTTP GET can give: a response with a status, or an exception
Responses == { [kind |-> "response", status |-> HttpOk],
               [kind |-> "response", status |-> 404],
               [kind |-> "exception", status |-> 0] }

\* ------------------------------------------------------------------ state
VARIABLES
    job,              \* the parameters DownloadThread was created with
    env,              \* what the network and the user may do in this run
    rerun,            \* TRUE in the second run of the same job
    pc,               \* position of the download thread
    downloader,       \* DownloadThread.downloader is not None
    signal,           \* the Qt signal run() emitted: "none", "finished", "error"
    stop_btn,         \* the GUI's stop button is enabled
    stop_requested, downloaded_count, skipped_count, failed_count,
    lock,             \* TileDownloader.lock: the set of its holders
    zoom_idx, range, total_tiles, completed,
    next_tile,        \* how many tiles tile_iter has yielded
    in_flight,        \* futures submitted and not yet reaped
    pending,          \* futures as_completed (line 216) has not yet yielded
    threads,          \* the executor's worker threads
    queue,            \* the executor's work queue
    fut,              \* state or result of this zoom level's futures
    worker,           \* what each worker thread is doing
    session,          \* threads whose thread-local session exists
    dirs,             \* the directories that exist, tile_dir being <<>>
    files,            \* the tile files that exist, each with its content
    observed,         \* history: download_area has read stop_requested as True
    stop_called,      \* history: stop_download was invoked in this run
    dispatched,       \* history: <<zoom_idx, x, y>> in submission order
    requests,         \* history: HTTP GETs issued per tile of this zoom level
    sessions_made,    \* history: requests.Session() constructions
    stats,            \* history: the per-zoom summary lines 240-242 printed
    progress,         \* history: the progress callback's arguments
    faults,           \* history: GETs that did not return 200
    prev,             \* history: the first run's outcome, in the second run
    fetched,          \* history: the statuses of the GETs issued per tile file
    fs_faults,        \* history: mkdir or write calls that raised
    estimate,         \* what confirm_estimate computed and showed
    sessions,         \* history: the sessions made and who used each
    raced             \* history: the tiles whose mkdir found a directory
                      \* another thread had just made, with the directory

vars == <<job, env, rerun, pc, downloader, signal, stop_btn, stop_requested,
          downloaded_count, skipped_count, failed_count, lock, zoom_idx, range,
          total_tiles, completed, next_tile, in_flight, pending, threads, queue,
          fut, worker, session, dirs, files, observed, stop_called,
          dispatched, requests, sessions_made, stats, progress, faults, prev,
          fetched, fs_faults, estimate, sessions, raced>>

schedVars == <<zoom_idx, range, total_tiles, completed, next_tile, in_flight,
               pending>>
poolVars == <<threads, queue, fut, worker, session>>
fsVars == <<dirs, files>>
counterVars == <<downloaded_count, skipped_count, failed_count, lock>>
histVars == <<observed, stop_called, dispatched, requests, sessions_made,
              stats, progress, faults, prev, fetched, fs_faults, estimate,
              sessions, raced>>
guiVars == <<job, env, rerun, downloader, signal, stop_btn>>

\* ------------------------------------------------------------ derived state
ZoomCount == Len(job.zoom_levels)
\* faulty variant: the list is walked from its end
ZoomReversed == job.zoom_levels[ZoomCount - zoom_idx]

\* line 152: for zoom_idx, zoom in enumerate(zoom_levels)
Zoom == job.zoom_levels[zoom_idx + 1]
Tiles == tile_iter(range)
NoRange == [x_min |-> 0, x_max |-> 0, y_min |-> 0, y_max |-> 0]
NoFutures == [t \in {} |-> "none"]
NoRequests == [t \in {} |-> 0]
NoFiles == [f \in {} |-> 0]
Idle == [pc |-> "idle", task |-> <<>>, result |-> "", tmp |-> 0]
NoFetched == [f \in {} |-> <<>>]
NoPrev == [ran |-> FALSE, stats |-> <<>>, stopped |-> FALSE, faults |-> 0,
           signal |-> "none", dispatched |-> <<>>, fetched |-> NoFetched]
NoEstimate == [done |-> FALSE, counts |-> <<>>, total |-> 0]

\* faulty variant: one more than four times the workers
MaxInFlightLoose == job.max_workers * InFlightFactor + 1

\* line 175
MaxInFlight == Max(1, job.max_workers * InFlightFactor)
\* faulty variant: the pool is as large as the in-flight window
PoolSizeLoose == job.max_workers * InFlightFactor

\* line 187: ThreadPoolExecutor(max_workers=self.max_workers)
PoolSize == job.max_workers

\* a future is done once download_tile has returned or raised
Done(f) == f \in {"stopped", "skipped", "success", "failed", "error",
                  "raised"}
\* faulty variant: no callback on the final completion
CallbackDueCadenceOnly(c) == c % ProgressCadence = 0

\* lines 208 and 228; DownloadThread always passes a progress callback
CallbackDue(c) == c % ProgressCadence = 0 \/ c = total_tiles
\* faulty variant: the callback is given the completions still to come
CallbackArgsRemaining ==
    [zoom_idx |-> zoom_idx, total_zooms |-> ZoomCount,
     completed |-> total_tiles - completed, total |-> total_tiles,
     downloaded |-> downloaded_count, skipped |-> skipped_count,
     zoom |-> Zoom]

CallbackArgs == [zoom_idx |-> zoom_idx, total_zooms |-> ZoomCount,
                 completed |-> completed, total |-> total_tiles,
                 downloaded |-> downloaded_count, skipped |-> skipped_count,
                 zoom |-> Zoom]

RootDir == <<>>
TileFile(t) == <<Zoom, t[1], t[2]>>

\* ------------------------------------------------------------------- Init
Start(scenarios) ==
    /\ \E s \in scenarios : job = s[1] /\ env = s[2]
    /\ rerun = FALSE
    /\ pc = "run"
    /\ downloader = FALSE
    /\ signal = "none"
    /\ stop_btn = TRUE
    /\ stop_requested = FALSE
    /\ downloaded_count = 0 /\ skipped_count = 0 /\ failed_count = 0
    /\ lock = {}
    /\ zoom_idx = 0 /\ range = NoRange /\ total_tiles = 0 /\ completed = 0
    /\ next_tile = 0 /\ in_flight = {} /\ pending = {}
    /\ threads = {} /\ queue = <<>> /\ fut = NoFutures
    /\ worker = [w \in ThreadIds |-> Idle]
    /\ session = {}
    /\ dirs = {} /\ files = NoFiles
    /\ observed = FALSE /\ stop_called = FALSE /\ dispatched = <<>>
    /\ requests = NoRequests /\ sessions_made = 0 /\ stats = <<>>
    /\ progress = <<>> /\ faults = 0 /\ prev = NoPrev
    /\ fetched = NoFetched /\ fs_faults = 0 /\ estimate = NoEstimate
    /\ sessions = {}
    /\ raced = {}

Init == Start(Scenarios)
InitTwice == Start(ScenariosTwice)
InitFs == Start(ScenariosFs)
InitLive == Start(ScenariosLive)
InitMkdir == Start(ScenariosMkdir)
InitEstimate == Start(ScenariosEstimate)
InitPreflight == Start(ScenariosPreflight)

\* ------------------------------------------------- DownloadThread and GUI
\* confirm_estimate, lines 591-593: a TileDownloader is made for the tile
\* directory and estimates the tiles of the job
Estimated ==
    LET e == estimate_tiles_for_area(job.bbox[1], job.bbox[2], job.bbox[3],
                                     job.bbox[4], job.zoom_levels)
    IN  [done |-> TRUE, counts |-> e.counts, total |-> e.total]

\* start_download, lines 647-666: the user answers Yes and the download
\* thread is created
ConfirmEstimate ==
    /\ pc = "run" /\ ~estimate.done
    /\ job.root_ok \/ RootDir \in dirs
    /\ dirs' = dirs \cup {RootDir}
    /\ estimate' = Estimated
    /\ UNCHANGED <<raced, guiVars, pc, stop_requested, counterVars, schedVars,
                   poolVars, files, observed, stop_called, dispatched,
                   requests, sessions_made, stats, progress, faults, prev,
                   fetched, fs_faults, sessions>>

\* start_download, lines 647-649: the user answers No, nothing is started
DeclineEstimate ==
    /\ pc = "run" /\ ~estimate.done
    /\ job.root_ok \/ RootDir \in dirs
    /\ dirs' = dirs \cup {RootDir}
    /\ estimate' = Estimated
    /\ pc' = "declined"
    /\ stop_btn' = FALSE
    /\ UNCHANGED <<raced, job, env, rerun, downloader, signal, stop_requested,
                   counterVars, schedVars, poolVars, files, observed,
                   stop_called, dispatched, requests, sessions_made, stats,
                   progress, faults, prev, fetched, fs_faults, sessions>>

\* line 592: the constructor raises on the root directory; start_download
\* catches ValueError only, so nothing is estimated and nothing is started
ConfirmEstimateRaises ==
    /\ pc = "run" /\ ~estimate.done
    /\ ~job.root_ok /\ RootDir \notin dirs
    /\ pc' = "start_failed"
    /\ stop_btn' = FALSE
    /\ UNCHANGED <<job, env, rerun, downloader, signal, stop_requested,
                   counterVars, schedVars, poolVars, fsVars, histVars>>

\* run, lines 317-321, and TileDownloader.__init__, lines 29-54
Construct ==
    /\ pc = "run"
    /\ job.root_ok \/ RootDir \in dirs
    /\ dirs' = dirs \cup {RootDir}
    /\ downloader' = TRUE
    /\ stop_requested' = FALSE
    /\ downloaded_count' = 0 /\ skipped_count' = 0 /\ failed_count' = 0
    /\ lock' = {}
    /\ pc' = "download_area"
    /\ UNCHANGED <<job, env, rerun, signal, stop_btn, schedVars, poolVars, files,
                   histVars>>

\* line 31 raises: the root directory cannot be created
ConstructFails ==
    /\ pc = "run"
    /\ ~job.root_ok /\ RootDir \notin dirs
    /\ pc' = "emit_error"
    /\ UNCHANGED <<guiVars, stop_requested, counterVars, schedVars, poolVars,
                   fsVars, histVars>>

\* what the GUI is told when the job ends: finished("Download completed
\* successfully!") or error(...)
TerminalStatus ==
    CASE signal = "finished" -> "Completed"
      [] signal = "error" -> "Failed"
      [] OTHER -> "Running"

\* run, line 326
EmitFinished ==
    /\ pc = "emit_finished"
    /\ signal' = "finished"
    /\ pc' = "done"
    /\ UNCHANGED <<job, env, rerun, downloader, stop_btn, stop_requested,
                   counterVars, schedVars, poolVars, fsVars, histVars>>

\* run, lines 327-328
EmitError ==
    /\ pc = "emit_error"
    /\ signal' = "error"
    /\ pc' = "done"
    /\ UNCHANGED <<job, env, rerun, downloader, stop_btn, stop_requested,
                   counterVars, schedVars, poolVars, fsVars, histVars>>

\* stop_download, lines 677-682; DownloadThread.stop, 330-332; stop, 132-134
Stop ==
    /\ env.user_stops
    /\ stop_btn
    /\ stop_called' = TRUE
    /\ stop_requested' = IF downloader THEN TRUE ELSE stop_requested
    /\ UNCHANGED <<raced, guiVars, pc, counterVars, schedVars, poolVars, fsVars,
                   observed, dispatched, requests, sessions_made, stats,
                   progress, faults, prev,
                   fetched, fs_faults, estimate, sessions>>

\* download_finished, lines 702-709, and download_error, lines 711-717
GuiFinished ==
    /\ pc = "done" /\ stop_btn
    /\ stop_btn' = FALSE
    /\ UNCHANGED <<job, env, rerun, pc, downloader, signal, stop_requested,
                   counterVars, schedVars, poolVars, fsVars, histVars>>

\* a new DownloadThread for the same job: nothing of the run before is left
\* but the directory tree
StartAgain ==
    /\ rerun' = TRUE
    /\ prev' = [ran |-> TRUE, stats |-> stats, stopped |-> stop_called,
                faults |-> faults, signal |-> signal,
                dispatched |-> dispatched, fetched |-> fetched]
    /\ pc' = "run"
    /\ downloader' = FALSE /\ signal' = "none" /\ stop_btn' = TRUE
    /\ stop_requested' = FALSE
    /\ downloaded_count' = 0 /\ skipped_count' = 0 /\ failed_count' = 0
    /\ lock' = {}
    /\ zoom_idx' = 0 /\ range' = NoRange /\ total_tiles' = 0 /\ completed' = 0
    /\ next_tile' = 0 /\ in_flight' = {} /\ pending' = {}
    /\ threads' = {} /\ queue' = <<>> /\ fut' = NoFutures
    /\ worker' = [w \in ThreadIds |-> Idle]
    /\ session' = {}
    /\ observed' = FALSE /\ stop_called' = FALSE /\ dispatched' = <<>>
    /\ requests' = NoRequests /\ sessions_made' = 0 /\ stats' = <<>>
    /\ progress' = <<>> /\ faults' = 0
    /\ fetched' = NoFetched /\ fs_faults' = 0 /\ sessions' = {}
    /\ raced' = {}
    /\ UNCHANGED <<job, env, fsVars, estimate>>

\* start_download, lines 619-670, a second time with the same inputs
Rerun ==
    /\ pc = "done" /\ ~stop_btn /\ ~rerun
    /\ StartAgain

\* the process dies while a tile file is open for writing: its threads are
\* gone and only the directory tree is left
Crash ==
    /\ ~rerun
    /\ \E w \in threads : worker[w].pc = "write"
    /\ pc' = "crashed"
    /\ threads' = {}
    /\ UNCHANGED <<guiVars, stop_requested, counterVars, schedVars, queue, fut,
                   worker, session, fsVars, histVars>>

\* the program is started again and the same job is run
Restart ==
    /\ pc = "crashed" /\ ~rerun
    /\ StartAgain

\* ---------------------------------------------------------- download_area
\* the reads of self.stop_requested in download_area
\* faulty variant: the flag is not checked at the top of the zoom loop
StopNotChecked == FALSE

StopAtZoomCheck == stop_requested   \* line 153
StopAtDispatch == stop_requested    \* lines 180, 183, 191
StopAtDrain == stop_requested       \* line 217
StopAtZoomEnd == stop_requested     \* line 236

\* line 146
AreaBegin ==
    /\ pc = "download_area"
    /\ stop_requested' = FALSE
    /\ zoom_idx' = 0
    /\ pc' = "zoom_check"
    /\ UNCHANGED <<guiVars, counterVars, range, total_tiles, completed,
                   next_tile, in_flight, pending, poolVars, fsVars, histVars>>

\* line 152: the zoom levels are exhausted
ZoomLoopExit ==
    /\ pc = "zoom_check"
    /\ zoom_idx >= ZoomCount
    /\ pc' = "area_end"
    /\ UNCHANGED <<guiVars, stop_requested, counterVars, schedVars, poolVars,
                   fsVars, histVars>>

\* lines 153-155
ZoomStopped ==
    /\ pc = "zoom_check"
    /\ zoom_idx < ZoomCount
    /\ StopAtZoomCheck
    /\ observed' = TRUE
    /\ pc' = "area_end"
    /\ UNCHANGED <<raced, guiVars, stop_requested, counterVars, schedVars, poolVars,
                   fsVars, stop_called, dispatched, requests, sessions_made,
                   stats, progress, faults, prev,
                   fetched, fs_faults, estimate, sessions>>

\* faulty variant: the counter keeps the previous zoom level's value
NotReset(c) == c

\* lines 168-170: self.downloaded_count = 0, and so on
Reset(c) == 0

\* lines 157-176: tile range, counters reset without the lock, completed = 0
ZoomBegin ==
    /\ pc = "zoom_check"
    /\ zoom_idx < ZoomCount
    /\ ~StopAtZoomCheck
    /\ range' = TileRange(job.bbox[1], job.bbox[2], job.bbox[3], job.bbox[4],
                          Zoom)
    /\ total_tiles' = TotalTiles(range')
    /\ downloaded_count' = Reset(downloaded_count)
    /\ skipped_count' = Reset(skipped_count)
    /\ failed_count' = Reset(failed_count)
    /\ completed' = 0
    /\ pc' = "executor"
    /\ UNCHANGED <<guiVars, stop_requested, lock, zoom_idx, next_tile,
                   in_flight, pending, poolVars, fsVars, histVars>>

\* lines 187-188: the pool, the tile generator and the in_flight set
ExecutorCreate ==
    /\ pc = "executor"
    /\ PoolSize >= 1
    /\ threads' = {} /\ queue' = <<>> /\ session' = {}
    /\ worker' = [w \in ThreadIds |-> Idle]
    /\ fut' = [t \in SeqToSet(Tiles) |-> "none"]
    /\ requests' = [t \in SeqToSet(Tiles) |-> 0]
    /\ in_flight' = {} /\ pending' = {}
    /\ next_tile' = 0
    /\ pc' = "dispatch"
    /\ UNCHANGED <<raced, guiVars, stop_requested, counterVars, zoom_idx, range,
                   total_tiles, completed, fsVars, observed, stop_called,
                   dispatched, sessions_made, stats, progress, faults, prev,
                   fetched, fs_faults, estimate, sessions>>

\* line 187: ThreadPoolExecutor raises ValueError for max_workers <= 0
ExecutorInvalid ==
    /\ pc = "executor"
    /\ PoolSize < 1
    /\ pc' = "emit_error"
    /\ UNCHANGED <<guiVars, stop_requested, counterVars, schedVars, poolVars,
                   fsVars, histVars>>

IdleThreads == {w \in threads : worker[w].pc = "idle"}

\* ThreadPoolExecutor.submit: a new thread when no idle one is free to take
\* the item and the pool is not full
Spawned == IF Cardinality(IdleThreads) <= Len(queue)
              /\ Cardinality(threads) < PoolSize
           THEN threads \cup {Cardinality(threads) + 1}
           ELSE threads

\* lines 178-193: tile_iter yields the next coordinate and it is submitted
\* (the flag reads of lines 180, 183 and 191 and the submit are one step:
\* nothing else the scheduler shares is touched between them)
DispatchSubmit ==
    /\ pc = "dispatch"
    /\ next_tile < Len(Tiles)
    /\ ~StopAtDispatch
    /\ LET t == Tiles[next_tile + 1] IN
        /\ fut' = [fut EXCEPT ![t] = "queued"]
        /\ queue' = Append(queue, t)
        /\ threads' = Spawned
        /\ in_flight' = in_flight \cup {t}
        /\ dispatched' = Append(dispatched, <<zoom_idx, t[1], t[2]>>)
        /\ next_tile' = next_tile + 1
        /\ pc' = IF Cardinality(in_flight') >= MaxInFlight
                 THEN "reap" ELSE "dispatch"
    /\ UNCHANGED <<raced, guiVars, stop_requested, counterVars, zoom_idx, range,
                   total_tiles, completed, pending, worker, session, fsVars,
                   observed, stop_called, requests, sessions_made, stats,
                   progress, faults, prev,
                   fetched, fs_faults, estimate, sessions>>

\* lines 180-184 and 191-192: the flag is seen set, no further submission
DispatchStop ==
    /\ pc = "dispatch"
    /\ next_tile < Len(Tiles)
    /\ StopAtDispatch
    /\ observed' = TRUE
    /\ pending' = in_flight
    /\ pc' = "drain"
    /\ UNCHANGED <<raced, guiVars, stop_requested, counterVars, zoom_idx, range,
                   total_tiles, completed, next_tile, in_flight, poolVars,
                   fsVars, stop_called, dispatched, requests, sessions_made,
                   stats, progress, faults, prev,
                   fetched, fs_faults, estimate, sessions>>

\* lines 179-185: the generator is exhausted; line 216 starts as_completed
DispatchEnd ==
    /\ pc = "dispatch"
    /\ next_tile >= Len(Tiles)
    /\ pending' = in_flight
    /\ pc' = "drain"
    /\ UNCHANGED <<guiVars, stop_requested, counterVars, zoom_idx, range,
                   total_tiles, completed, next_tile, in_flight, poolVars,
                   fsVars, histVars>>

\* as_completed yields the futures that have finished; among several it
\* yields them in an order the scheduler never looks at (it only counts
\* them), so the model takes them in the order of their submission
\* faulty variant: no future is ever reported as finished
FinishedNever(fs) == {}

Finished(fs) == {t \in fs : Done(fut[t])}
Position(t) == CHOOSE i \in 1..Len(Tiles) : Tiles[i] = t
Yielded(fs) == CHOOSE t \in Finished(fs) :
                  \A u \in Finished(fs) : Position(t) <= Position(u)

\* faulty variant: the reaped future stays in the set
RemoveNothing(fs, t) == fs

\* line 197: in_flight.remove(done)
Remove(fs, t) == fs \ {t}

\* lines 195-198: wait for the first finished future and reap it
Reap ==
    /\ pc = "reap"
    /\ Finished(in_flight) # {}
    /\ in_flight' = Remove(in_flight, Yielded(in_flight))
    /\ completed' = completed + 1
    /\ pc' = IF CallbackDue(completed') THEN "main_callback" ELSE "dispatch"
    /\ UNCHANGED <<guiVars, stop_requested, counterVars, zoom_idx, range,
                   total_tiles, next_tile, pending, poolVars, fsVars, histVars>>

\* lines 208-214
MainCallback ==
    /\ pc = "main_callback"
    /\ progress' = Append(progress, CallbackArgs)
    /\ pc' = "dispatch"
    /\ UNCHANGED <<raced, guiVars, stop_requested, counterVars, schedVars, poolVars,
                   fsVars, observed, stop_called, dispatched, requests,
                   sessions_made, stats, faults, prev,
                   fetched, fs_faults, estimate, sessions>>

\* lines 216-219: as_completed yields a finished future, the flag is clear
DrainNext ==
    /\ pc = "drain"
    /\ ~StopAtDrain
    /\ Finished(pending) # {}
    /\ pending' = pending \ {Yielded(pending)}
    /\ completed' = completed + 1
    /\ pc' = IF CallbackDue(completed') THEN "drain_callback" ELSE "drain"
    /\ UNCHANGED <<guiVars, stop_requested, counterVars, zoom_idx, range,
                   total_tiles, next_tile, in_flight, poolVars, fsVars,
                   histVars>>

\* lines 216-218: as_completed yields a finished future, the flag is set
DrainStop ==
    /\ pc = "drain"
    /\ StopAtDrain
    /\ Finished(pending) # {}
    /\ observed' = TRUE
    /\ pc' = "shutdown"
    /\ UNCHANGED <<raced, guiVars, stop_requested, counterVars, schedVars, poolVars,
                   fsVars, stop_called, dispatched, requests, sessions_made,
                   stats, progress, faults, prev,
                   fetched, fs_faults, estimate, sessions>>

\* line 216: every future of in_flight has been yielded
DrainEnd ==
    /\ pc = "drain"
    /\ pending = {}
    /\ pc' = "shutdown"
    /\ UNCHANGED <<guiVars, stop_requested, counterVars, schedVars, poolVars,
                   fsVars, histVars>>

\* lines 228-234
DrainCallback ==
    /\ pc = "drain_callback"
    /\ progress' = Append(progress, CallbackArgs)
    /\ pc' = "drain"
    /\ UNCHANGED <<raced, guiVars, stop_requested, counterVars, schedVars, poolVars,
                   fsVars, observed, stop_called, dispatched, requests,
                   sessions_made, stats, faults, prev,
                   fetched, fs_faults, estimate, sessions>>

\* faulty variant: shutdown(wait=False)
PoolNotAwaited == TRUE

\* every work item has been run and every worker thread is idle
PoolQuiet == queue = <<>> /\ \A w \in threads : worker[w].pc = "idle"

\* line 187, leaving the with block: executor.shutdown(wait=True)
Shutdown ==
    /\ pc = "shutdown"
    /\ PoolQuiet
    /\ threads' = {} /\ session' = {}
    /\ pc' = "zoom_end"
    /\ UNCHANGED <<guiVars, stop_requested, counterVars, schedVars, queue, fut,
                   worker, fsVars, histVars>>

\* lines 236-237
ZoomEndStop ==
    /\ pc = "zoom_end"
    /\ StopAtZoomEnd
    /\ observed' = TRUE
    /\ pc' = "area_end"
    /\ UNCHANGED <<raced, guiVars, stop_requested, counterVars, schedVars, poolVars,
                   fsVars, stop_called, dispatched, requests, sessions_made,
                   stats, progress, faults, prev,
                   fetched, fs_faults, estimate, sessions>>

\* lines 239-242 and the next iteration of line 152
ZoomEnd ==
    /\ pc = "zoom_end"
    /\ ~StopAtZoomEnd
    /\ stats' = Append(stats, [zoom |-> Zoom, downloaded |-> downloaded_count,
                               skipped |-> skipped_count,
                               failed |-> failed_count, total |-> total_tiles])
    /\ zoom_idx' = zoom_idx + 1
    /\ pc' = "zoom_check"
    /\ UNCHANGED <<raced, guiVars, stop_requested, counterVars, range, total_tiles,
                   completed, next_tile, in_flight, pending, poolVars, fsVars,
                   observed, stop_called, dispatched, requests, sessions_made,
                   progress, faults, prev,
                   fetched, fs_faults, estimate, sessions>>

\* lines 244-246: download_area returns
AreaEnd ==
    /\ pc = "area_end"
    /\ pc' = "emit_finished"
    /\ UNCHANGED <<guiVars, stop_requested, counterVars, schedVars, poolVars,
                   fsVars, histVars>>

\* ---------------------------------------------------------- download_tile
\* faulty variant: the counters are updated without the lock
LockIgnored == TRUE

\* with self.lock: the lock can be taken when nobody holds it
LockFree == lock = {}

\* faulty variant: every += reads downloaded_count
CounterOfDownloaded(result) == downloaded_count

\* the counter that += reads for a result
CounterOf(result) ==
    CASE result = "success" -> downloaded_count
      [] result = "skipped" -> skipped_count
      [] OTHER -> failed_count

\* faulty variant: the except branch does not count the tile
CountsAsFailedStatusOnly(r) == r = "failed"

\* lines 119-124 and 125-130: both failure paths count the tile as failed
CountsAsFailed(r) == r \in {"failed", "error"}

\* faulty variant: the existence check is missing
ExistsNever(f) == FALSE

\* faulty variant: an empty or partial file does not count as present
ExistsWhole(f) == f \in DOMAIN files /\ files[f] >= 1

\* exists(): line 99
Exists(f) == f \in DOMAIN files

\* line 95: mkdir(parents=True, exist_ok=True) of tile_dir/z/x
Mkdir(t) == dirs \cup {<<Zoom>>, <<Zoom, t[1]>>}

\* faulty variant: the body is not written
NotWritten(f) == files

\* lines 112-113: the file holds the body of one more response
Written(f) ==
    [p \in DOMAIN files \cup {f} |->
        IF p = f THEN (IF f \in DOMAIN files THEN files[f] + 1 ELSE 1)
        ELSE files[p]]

\* faulty variant: download_tile does not look at the flag
EntryNotChecked == FALSE

\* line 90: if self.stop_requested
StopAtEntry == stop_requested

\* a pool thread takes the next work item; lines 90-91: the flag is set
WorkerStopped(w) ==
    /\ w \in threads /\ worker[w].pc = "idle"
    /\ queue # <<>>
    /\ StopAtEntry
    /\ fut' = [fut EXCEPT ![Head(queue)] = "stopped"]
    /\ queue' = Tail(queue)
    /\ UNCHANGED <<guiVars, pc, stop_requested, counterVars, schedVars,
                   threads, worker, session, fsVars, histVars>>

\* a pool thread takes the next work item; lines 90-104: the flag is clear,
\* the directory is made and the tile file exists
WorkerSkip(w) ==
    /\ w \in threads /\ worker[w].pc = "idle"
    /\ queue # <<>>
    /\ ~StopAtEntry
    /\ Exists(TileFile(Head(queue)))
    /\ dirs' = Mkdir(Head(queue))
    /\ fut' = [fut EXCEPT ![Head(queue)] = "running"]
    /\ worker' = [worker EXCEPT ![w] = [Idle EXCEPT !.pc = "acquire",
                                                    !.task = Head(queue),
                                                    !.result = "skipped"]]
    /\ queue' = Tail(queue)
    /\ UNCHANGED <<guiVars, pc, stop_requested, counterVars, schedVars,
                   threads, session, files, histVars>>

\* a pool thread takes the next work item; lines 90-106: the flag is clear,
\* the directory is made and the tile file does not exist
WorkerMiss(w) ==
    /\ w \in threads /\ worker[w].pc = "idle"
    /\ queue # <<>>
    /\ ~StopAtEntry
    /\ ~Exists(TileFile(Head(queue)))
    /\ dirs' = Mkdir(Head(queue))
    /\ fut' = [fut EXCEPT ![Head(queue)] = "running"]
    /\ worker' = [worker EXCEPT ![w] = [Idle EXCEPT !.pc = "fetch",
                                                    !.task = Head(queue)]]
    /\ queue' = Tail(queue)
    /\ UNCHANGED <<guiVars, pc, stop_requested, counterVars, schedVars,
                   threads, session, files, histVars>>

\* faulty variant: mkdir is called without exist_ok
ExistNotOk == FALSE

\* line 95: exist_ok=True
ExistOk == TRUE

\* tile_dir/z and tile_dir/z/x
ZoomDir == <<Zoom>>
ColumnDir(t) == <<Zoom, t[1]>>

\* a pool thread takes the next work item; lines 90-93: the flag is clear
WorkerEnter(w) ==
    /\ w \in threads /\ worker[w].pc = "idle"
    /\ queue # <<>>
    /\ ~StopAtEntry
    /\ fut' = [fut EXCEPT ![Head(queue)] = "running"]
    /\ worker' = [worker EXCEPT ![w] = [Idle EXCEPT !.pc = "mkdir",
                                                    !.task = Head(queue)]]
    /\ queue' = Tail(queue)
    /\ UNCHANGED <<guiVars, pc, stop_requested, counterVars, schedVars,
                   threads, session, fsVars, histVars>>

\* mkdir raises out of download_tile: the future keeps the exception
MkdirRaises(w) ==
    /\ fut' = [fut EXCEPT ![worker[w].task] = "raised"]
    /\ worker' = [worker EXCEPT ![w] = Idle]
    /\ UNCHANGED <<dirs, raced>>

\* mkdir returns: line 97
MkdirReturns(w) ==
    /\ worker' = [worker EXCEPT ![w].pc = "exists"]
    /\ UNCHANGED fut

\* the tile of worker w found directory d, which it had seen missing
Raced(w, d) ==
    raced \cup {[tile |-> <<zoom_idx, worker[w].task[1], worker[w].task[2]>>,
                 dir |-> d]}

\* line 95, Path.mkdir: os.mkdir(tile_dir/z/x) makes the directory, or raises
\* FileNotFoundError when tile_dir/z is missing, or FileExistsError, which
\* exist_ok forgives
MkdirTry(w) ==
    /\ w \in threads /\ worker[w].pc = "mkdir"
    /\ IF ZoomDir \notin dirs
       THEN /\ worker' = [worker EXCEPT ![w].pc = "mkdir_parent"]
            /\ UNCHANGED <<fut, dirs>>
       ELSE IF ColumnDir(worker[w].task) \notin dirs
       THEN /\ dirs' = dirs \cup {ColumnDir(worker[w].task)}
            /\ MkdirReturns(w)
       ELSE IF ExistOk
       THEN MkdirReturns(w) /\ UNCHANGED dirs
       ELSE MkdirRaises(w)
    /\ UNCHANGED <<guiVars, pc, stop_requested, counterVars, schedVars,
                   threads, queue, session, files, observed, stop_called,
                   dispatched, requests, sessions_made, stats, progress,
                   faults, prev, fetched, fs_faults, estimate, sessions,
                   raced>>

\* Path.mkdir after FileNotFoundError: self.parent.mkdir(parents=True,
\* exist_ok=True) makes tile_dir/z, or finds it made by another thread
MkdirParent(w) ==
    /\ w \in threads /\ worker[w].pc = "mkdir_parent"
    /\ dirs' = dirs \cup {ZoomDir}
    /\ raced' = IF ZoomDir \in dirs THEN Raced(w, ZoomDir) ELSE raced
    /\ worker' = [worker EXCEPT ![w].pc = "mkdir_self"]
    /\ UNCHANGED <<guiVars, pc, stop_requested, counterVars, schedVars,
                   threads, queue, fut, session, files, observed, stop_called,
                   dispatched, requests, sessions_made, stats, progress,
                   faults, prev, fetched, fs_faults, estimate, sessions>>

\* Path.mkdir after the parent is made: self.mkdir(parents=False,
\* exist_ok=exist_ok) makes tile_dir/z/x, or finds it made by another thread
MkdirSelf(w) ==
    /\ w \in threads /\ worker[w].pc = "mkdir_self"
    /\ IF ColumnDir(worker[w].task) \notin dirs
       THEN /\ dirs' = dirs \cup {ColumnDir(worker[w].task)}
            /\ MkdirReturns(w)
            /\ UNCHANGED raced
       ELSE IF ExistOk
       THEN /\ MkdirReturns(w) /\ UNCHANGED dirs
            /\ raced' = Raced(w, ColumnDir(worker[w].task))
       ELSE MkdirRaises(w)
    /\ UNCHANGED <<guiVars, pc, stop_requested, counterVars, schedVars,
                   threads, queue, session, files, observed, stop_called,
                   dispatched, requests, sessions_made, stats, progress,
                   faults, prev, fetched, fs_faults, estimate, sessions>>

\* lines 97-106: the tile file exists and the tile is skipped, or it does
\* not and the tile is fetched
WorkerChecked(w) ==
    /\ w \in threads /\ worker[w].pc = "exists"
    /\ worker' = IF Exists(TileFile(worker[w].task))
                 THEN [worker EXCEPT ![w].pc = "acquire",
                                     ![w].result = "skipped"]
                 ELSE [worker EXCEPT ![w].pc = "fetch"]
    /\ UNCHANGED <<guiVars, pc, stop_requested, counterVars, schedVars,
                   threads, queue, fut, session, fsVars, histVars>>

\* the thread of the current zoom level's pool that runs worker w
ThreadOf(w) == <<zoom_idx, w>>

\* faulty variant: the session is kept in one attribute all threads share
SharedSlot(w) == <<0, 0>>

\* line 54: self._thread_local = local(): every thread has a slot of its own
ThreadSlot(w) == ThreadOf(w)

\* line 57: getattr(self._thread_local, 'session', None)
SessionsIn(slot) == {s \in sessions : s.key = slot}

\* lines 56-62 and 109-110: the thread's session, made on first use; one GET
GetSession(w) ==
    /\ session' = session \cup {w}
    /\ sessions_made' = IF SessionsIn(ThreadSlot(w)) # {} THEN sessions_made
                        ELSE sessions_made + 1
    /\ sessions' =
          IF SessionsIn(ThreadSlot(w)) # {}
          THEN (sessions \ SessionsIn(ThreadSlot(w)))
               \cup {[s EXCEPT !.users = @ \cup {ThreadOf(w)}] :
                        s \in SessionsIn(ThreadSlot(w))}
          ELSE sessions \cup {[key |-> ThreadSlot(w), users |-> {ThreadOf(w)}]}
    /\ requests' = [requests EXCEPT ![worker[w].task] = @ + 1]

\* faulty variant: every response counts as a success
ClassifyLenient(r) == IF r.kind = "exception" THEN "error" ELSE "success"

\* lines 111-130: what download_tile returns for the outcome of the GET
Classify(r) ==
    CASE r.kind = "exception" -> "error"
      [] r.status = HttpOk -> "success"
      [] OTHER -> "failed"

\* line 110: session.get returns a response or raises; the status it gave
\* is kept per tile file, 0 standing for an exception
Got(w, status) ==
    LET f == TileFile(worker[w].task) IN
    fetched' = [p \in DOMAIN fetched \cup {f} |->
                  IF p = f
                  THEN (IF f \in DOMAIN fetched THEN Append(fetched[f], status)
                        ELSE <<status>>)
                  ELSE fetched[p]]

\* lines 108-113: the GET returns 200 and the body is written to the file
WorkerFetchOk(w) ==
    /\ w \in threads /\ worker[w].pc = "fetch"
    /\ GetSession(w)
    /\ Got(w, HttpOk)
    /\ files' = Written(TileFile(worker[w].task))
    /\ worker' = [worker EXCEPT
          ![w].pc = "acquire",
          ![w].result = Classify([kind |-> "response", status |-> HttpOk])]
    /\ UNCHANGED <<raced, guiVars, pc, stop_requested, counterVars, schedVars,
                   threads, queue, fut, dirs, observed, stop_called,
                   dispatched, stats, progress, faults, prev,
                   fs_faults, estimate>>

\* faulty variant: a failed GET is issued again
AfterFailureRetry == "fetch"

\* lines 119-130: after a failed GET the tile is counted, nothing is retried
AfterFailure == "acquire"

\* faulty variant: the file is opened before the status is looked at
OpenedBeforeStatus(f) ==
    [p \in DOMAIN files \cup {f} |-> IF p = f THEN 0 ELSE files[p]]

\* lines 119-130: a GET that failed leaves the files as they are
AfterFailedGet(f) == files

\* lines 119-124 (another status) and 125-130 (the GET raises)
WorkerFetchFails(w) ==
    /\ w \in threads /\ worker[w].pc = "fetch"
    /\ faults < env.fault_budget
    /\ GetSession(w)
    /\ faults' = faults + 1
    /\ \E r \in Responses :
        /\ r.kind = "exception" \/ r.status # HttpOk
        /\ Got(w, r.status)
        /\ worker' = [worker EXCEPT
              ![w].pc = AfterFailure,
              ![w].result = Classify(r)]
    /\ files' = AfterFailedGet(TileFile(worker[w].task))
    /\ UNCHANGED <<raced, guiVars, pc, stop_requested, counterVars, schedVars,
                   threads, queue, fut, dirs, observed, stop_called,
                   dispatched, stats, progress, prev,
                   fs_faults, estimate>>

\* line 95 raises (a file stands where the directory should be, the disk is
\* full): the call is outside the try block, so download_tile raises, the
\* future keeps the exception and no counter is touched
WorkerMkdirFails(w) ==
    /\ w \in threads /\ worker[w].pc = "idle"
    /\ queue # <<>>
    /\ ~StopAtEntry
    /\ fs_faults < env.fault_budget
    /\ fs_faults' = fs_faults + 1
    /\ \E made \in SUBSET {<<Zoom>>} : dirs' = dirs \cup made
    /\ fut' = [fut EXCEPT ![Head(queue)] = "raised"]
    /\ queue' = Tail(queue)
    /\ UNCHANGED <<raced, guiVars, pc, stop_requested, counterVars, schedVars,
                   threads, worker, session, files, observed, stop_called,
                   dispatched, requests, sessions_made, stats, progress,
                   faults, prev, fetched, estimate, sessions>>

\* open(tile_file, 'wb') has made an empty file
Truncated(f) == [p \in DOMAIN files \cup {f} |-> IF p = f THEN 0 ELSE files[p]]

\* lines 110-113 and 125-130: the GET returns 200 and open or write raises;
\* the except branch counts the tile as failed
WorkerWriteFails(w) ==
    /\ w \in threads /\ worker[w].pc = "fetch"
    /\ fs_faults < env.fault_budget
    /\ fs_faults' = fs_faults + 1
    /\ GetSession(w)
    /\ Got(w, HttpOk)
    /\ files' \in {files, Truncated(TileFile(worker[w].task))}
    /\ worker' = [worker EXCEPT
          ![w].pc = "acquire",
          ![w].result = Classify([kind |-> "exception", status |-> 0])]
    /\ UNCHANGED <<raced, guiVars, pc, stop_requested, counterVars, schedVars,
                   threads, queue, fut, dirs, observed, stop_called,
                   dispatched, stats, progress, faults, prev, estimate>>

\* lines 108-112: the GET returns 200 and open(tile_file, 'wb') makes the
\* file, empty
WorkerOpen(w) ==
    /\ w \in threads /\ worker[w].pc = "fetch"
    /\ GetSession(w)
    /\ Got(w, HttpOk)
    /\ files' = Truncated(TileFile(worker[w].task))
    /\ worker' = [worker EXCEPT ![w].pc = "write"]
    /\ UNCHANGED <<raced, guiVars, pc, stop_requested, counterVars, schedVars,
                   threads, queue, fut, dirs, observed, stop_called,
                   dispatched, stats, progress, faults, prev,
                   fs_faults, estimate>>

\* line 113: the body is written and the file is closed
WorkerWrite(w) ==
    /\ w \in threads /\ worker[w].pc = "write"
    /\ files' = Written(TileFile(worker[w].task))
    /\ worker' = [worker EXCEPT
          ![w].pc = "acquire",
          ![w].result = Classify([kind |-> "response", status |-> HttpOk])]
    /\ UNCHANGED <<guiVars, pc, stop_requested, counterVars, schedVars,
                   threads, queue, fut, session, dirs, histVars>>

\* lines 100, 114, 122, 128: the lock is taken, then += reads the counter
WorkerAcquire(w) ==
    /\ w \in threads /\ worker[w].pc = "acquire"
    /\ LockFree
    /\ lock' = lock \cup {w}
    /\ worker' = [worker EXCEPT ![w].pc = "store",
                                ![w].tmp = CounterOf(worker[w].result)]
    /\ UNCHANGED <<guiVars, pc, stop_requested, downloaded_count,
                   skipped_count, failed_count, schedVars, threads, queue, fut,
                   session, fsVars, histVars>>

\* lines 101, 115, 123, 129: += stores the counter, the lock is released and
\* download_tile returns its result
WorkerStore(w) ==
    /\ w \in threads /\ worker[w].pc = "store"
    /\ LET r == worker[w].result
           v == worker[w].tmp + 1 IN
        /\ downloaded_count' = IF r = "success" THEN v ELSE downloaded_count
        /\ skipped_count' = IF r = "skipped" THEN v ELSE skipped_count
        /\ failed_count' = IF CountsAsFailed(r) THEN v ELSE failed_count
        /\ fut' = [fut EXCEPT ![worker[w].task] = r]
    /\ lock' = lock \ {w}
    /\ worker' = [worker EXCEPT ![w] = Idle]
    /\ UNCHANGED <<guiVars, pc, stop_requested, schedVars, threads, queue,
                   session, fsVars, histVars>>

\* ------------------------------------------------------------------- Spec
WorkerRun(w) ==
    \/ WorkerSkip(w) \/ WorkerMiss(w)
    \/ WorkerFetchOk(w) \/ WorkerFetchFails(w)
    \/ WorkerAcquire(w) \/ WorkerStore(w)

SchedulerRun ==
    \/ Construct \/ ConstructFails \/ EmitFinished \/ EmitError
    \/ AreaBegin \/ ZoomLoopExit \/ ZoomBegin
    \/ ExecutorCreate \/ ExecutorInvalid
    \/ DispatchSubmit \/ DispatchEnd
    \/ Reap \/ MainCallback
    \/ DrainNext \/ DrainEnd \/ DrainCallback
    \/ Shutdown \/ ZoomEnd \/ AreaEnd
    \/ GuiFinished

\* the steps that are taken only once stop_requested is set
Cancel ==
    \/ Stop
    \/ ZoomStopped \/ DispatchStop \/ DrainStop \/ ZoomEndStop
    \/ \E w \in ThreadIds : WorkerStopped(w)

\* one run of a job, which the user may stop at any time
Next == SchedulerRun \/ Cancel \/ (\E w \in ThreadIds : WorkerRun(w))

Spec == Init /\ [][Next]_vars

\* the steps of the download thread, and of the GUI thread when it is told
\* the job has ended
ThreadRun ==
    SchedulerRun \/ ZoomStopped \/ DispatchStop \/ DrainStop \/ ZoomEndStop

\* every thread that can take a step eventually takes one: a GET and a
\* filesystem call return, a free lock is acquired; the user is never
\* obliged to press stop
Fairness ==
    /\ WF_vars(ThreadRun)
    /\ \A w \in ThreadIds : WF_vars(WorkerRun(w) \/ WorkerStopped(w))

\* one run of a job under a scheduler that starves no thread
SpecLive == InitLive /\ [][Next]_vars /\ Fairness

\* download_tile with the steps of Path.mkdir taken one by one
MkdirRun(w) ==
    \/ WorkerEnter(w) \/ MkdirTry(w) \/ MkdirParent(w) \/ MkdirSelf(w)
    \/ WorkerChecked(w)
    \/ WorkerFetchOk(w) \/ WorkerAcquire(w) \/ WorkerStore(w)

\* download_area for a job that can run, on a reliable network
SchedulerMkdir ==
    \/ Construct \/ EmitFinished
    \/ AreaBegin \/ ZoomLoopExit \/ ZoomBegin
    \/ ExecutorCreate
    \/ DispatchSubmit \/ DispatchEnd
    \/ Reap
    \/ DrainNext \/ DrainEnd \/ DrainCallback
    \/ Shutdown \/ ZoomEnd \/ AreaEnd
    \/ GuiFinished

NextMkdir == SchedulerMkdir \/ (\E w \in ThreadIds : MkdirRun(w))

\* one run of a job whose workers make the directories step by step
SpecMkdir == InitMkdir /\ [][NextMkdir]_vars

\* download_tile with the write of lines 112-113 in two steps
CrashRun(w) ==
    \/ WorkerSkip(w) \/ WorkerMiss(w)
    \/ WorkerOpen(w) \/ WorkerWrite(w)
    \/ WorkerAcquire(w) \/ WorkerStore(w)

NextCrash ==
    SchedulerMkdir \/ Crash \/ Restart \/ (\E w \in ThreadIds : CrashRun(w))

\* a run the process may die in, followed by a run of the same job
SpecCrash == InitMkdir /\ [][NextCrash]_vars

\* a job run twice against the same directory, the user never pressing stop
NextTwice == SchedulerRun \/ Rerun \/ (\E w \in ThreadIds : WorkerRun(w))

SpecTwice == InitTwice /\ [][NextTwice]_vars

\* one run, never stopped, on a filesystem whose calls may raise
FsFault == \E w \in ThreadIds : WorkerMkdirFails(w) \/ WorkerWriteFails(w)
NextFs == SchedulerRun \/ FsFault \/ (\E w \in ThreadIds : WorkerRun(w))

SpecFs == InitFs /\ [][NextFs]_vars

\* start_download up to the user's answer to the estimate
Preflight == ConfirmEstimate \/ DeclineEstimate \/ ConfirmEstimateRaises
NextEstimate == Preflight

SpecEstimate == InitEstimate /\ [][NextEstimate]_vars

\* the download thread once start_download has created it: the root
\* directory exists by then
StartedRun ==
    \/ Construct \/ EmitFinished \/ EmitError
    \/ AreaBegin \/ ZoomLoopExit \/ ZoomBegin
    \/ ExecutorCreate \/ ExecutorInvalid
    \/ DispatchSubmit \/ DispatchEnd
    \/ Reap \/ MainCallback
    \/ DrainNext \/ DrainEnd \/ DrainCallback
    \/ Shutdown \/ ZoomEnd \/ AreaEnd
    \/ GuiFinished

\* start_download and the run it starts, the user never pressing stop
NextPreflight ==
    \/ Preflight
    \/ estimate.done /\ (StartedRun \/ \E w \in ThreadIds : WorkerRun(w))

SpecPreflight == InitPreflight /\ [][NextPreflight]_vars

\* ================================================================ claims
FirstOccurrence(i) ==
    \A k \in 1..(i - 1) : job.zoom_levels[k] # job.zoom_levels[i]

AllDownloaded(st) ==
    st.downloaded = st.total /\ st.skipped = 0 /\ st.failed = 0
AllSkipped(st) ==
    st.downloaded = 0 /\ st.skipped = st.total /\ st.failed = 0

Busy == {w \in ThreadIds : worker[w].pc # "idle"}
Unfinished == {t \in DOMAIN fut : fut[t] \in {"queued", "running"}}
\* the tiles that passed the entry check of download_tile
Attempted == {t \in DOMAIN fut : fut[t] \notin {"none", "queued", "stopped"}}
WithResult(rs) == {t \in DOMAIN fut : fut[t] \in rs}

\* C1 as stated: in a run never stopped, with an empty directory at the start
\* and every GET returning 200, every zoom level ends with
\* downloaded = total and skipped = failed = 0.
C1_NoLostIncrement ==
    (~stop_called /\ faults = 0) =>
        \A i \in 1..Len(stats) : AllDownloaded(stats[i])

\* C1 amended: the same for every zoom level whose zoom value did not occur
\* earlier in the zoom list (a repeated zoom value finds its files on disk).
C1_NoLostIncrementFirstVisit ==
    (~stop_called /\ faults = 0) =>
        \A i \in 1..Len(stats) : FirstOccurrence(i) => AllDownloaded(stats[i])

C1_Witness ==
    /\ ~stop_called /\ faults = 0 /\ job.max_workers > 1
    /\ Len(stats) > 0
    /\ stats[Len(stats)].total > 1
    /\ AllDownloaded(stats[Len(stats)])

\* C2 as stated: a job run twice, every GET returning 200: each zoom level
\* has downloaded = N, skipped = 0 in the first run and downloaded = 0,
\* skipped = N in the second.
C2_Idempotent ==
    (rerun /\ prev.signal = "finished" /\ prev.faults = 0 /\ faults = 0) =>
        \A i \in 1..Len(stats) :
            AllDownloaded(prev.stats[i]) /\ AllSkipped(stats[i])

\* C2 amended: the same for every zoom level whose zoom value did not occur
\* earlier in the zoom list.
C2_IdempotentFirstVisit ==
    (rerun /\ prev.signal = "finished" /\ prev.faults = 0 /\ faults = 0) =>
        \A i \in 1..Len(stats) : FirstOccurrence(i) =>
            /\ prev.stats[i].total = stats[i].total
            /\ AllDownloaded(prev.stats[i]) /\ AllSkipped(stats[i])

C2_Witness ==
    /\ rerun /\ pc = "done" /\ prev.faults = 0 /\ job.max_workers > 1
    /\ Len(stats) > 1
    /\ stats[Len(stats)].total > 1
    /\ AllSkipped(stats[Len(stats)])
    /\ AllDownloaded(prev.stats[Len(stats)])

\* one step of a worker whose tile file exists when download_tile checks it
C3_Step ==
    \A w \in ThreadIds :
        /\ (/\ worker[w].pc = "idle" /\ worker'[w].pc # "idle"
            /\ TileFile(worker'[w].task) \in DOMAIN files)
           => /\ worker'[w].result = "skipped"
              /\ worker'[w].pc = "acquire"
              /\ files' = files /\ requests' = requests
        /\ worker[w].result = "skipped"
           => /\ worker'[w].pc \in {"acquire", "store", "idle"}
              /\ requests'[worker[w].task] = 0
              /\ TileFile(worker[w].task) \in DOMAIN files'
              /\ files'[TileFile(worker[w].task)]
                    = files[TileFile(worker[w].task)]
        /\ (worker[w].result = "skipped" /\ worker'[w].pc = "idle")
           => /\ fut'[worker[w].task] = "skipped"
              /\ skipped_count' = skipped_count + 1
              /\ downloaded_count' = downloaded_count
              /\ failed_count' = failed_count

\* C3: a tile whose file exists when download_tile checks it is classified
\* as skipped: no GET is issued for it, the file keeps its content, and
\* skipped_count alone is incremented, by one.
C3_ExistingTileSkipped == [][C3_Step]_vars

C3_Witness ==
    \E t \in DOMAIN fut :
        /\ fut[t] = "skipped" /\ requests[t] = 0
        /\ TileFile(t) \in DOMAIN files
        /\ skipped_count > 0

\* download_area is past line 146
InArea == pc \notin {"run", "download_area"}

C4_Step ==
    (stop_requested /\ InArea) =>
        /\ stop_requested'
        /\ zoom_idx' = zoom_idx
        /\ ~(pc = "zoom_check" /\ pc' = "executor")
        /\ downloaded_count' >= downloaded_count
        /\ skipped_count' >= skipped_count
        /\ failed_count' >= failed_count
        /\ \A k \in (Len(dispatched) + 1)..Len(dispatched') :
              dispatched'[k][1] = zoom_idx

\* C4: once the flag is set while a zoom level is being processed, no later
\* zoom level is started: the zoom index stays, no coordinate of a later zoom
\* level is dispatched and the counters are not reset.
C4_NoLaterZoom == [][C4_Step]_vars

C4_Witness ==
    /\ pc = "done" /\ observed
    /\ zoom_idx + 1 < ZoomCount
    /\ Len(dispatched) > 0

\* C5 as stated: a job in which the flag was observed ends with the status
\* Cancelled, and a job ends with Completed only if the flag was never
\* observed.
C5_CancelledStatus ==
    /\ (pc = "done" /\ observed /\ Len(dispatched) > 0)
       => TerminalStatus = "Cancelled"
    /\ (pc = "done" /\ TerminalStatus = "Completed") => ~observed

\* the executor of the current zoom level exists
PoolLive == pc \in {"dispatch", "reap", "main_callback", "drain",
                    "drain_callback", "shutdown"}

\* C6: once download_area has observed the flag it submits nothing, and it
\* does not leave the zoom level, return or end while a worker is still
\* fetching, writing or counting: no started fetch is abandoned.
C6_DrainBeforeReturn ==
    /\ [](~PoolLive => (Busy = {} /\ Unfinished = {} /\ lock = {}))
    /\ [][observed => dispatched' = dispatched]_vars

C6_Witness ==
    /\ observed /\ pc = "shutdown"
    /\ \E w \in threads : worker[w].pc = "fetch"

CountersMatch ==
    /\ downloaded_count = Cardinality(WithResult({"success"}))
    /\ skipped_count = Cardinality(WithResult({"skipped"}))
    /\ failed_count = Cardinality(WithResult({"failed", "error"}))
    /\ \A t \in Attempted : Done(fut[t])

C8_InFlightBounded ==
    /\ Cardinality(in_flight) <= InFlightFactor * job.max_workers
    /\ Cardinality(Unfinished) <= InFlightFactor * job.max_workers

C8_Witness ==
    /\ pc = "reap"
    /\ Cardinality(in_flight) = InFlightFactor * job.max_workers
    /\ next_tile < Len(Tiles)

\* C9: at most max_workers tile fetches execute at the same time.
C9_FetchesBounded ==
    /\ Cardinality(Busy) <= job.max_workers
    /\ Cardinality(threads) <= job.max_workers

C9_Witness ==
    /\ job.max_workers > 1
    /\ Cardinality({w \in threads : worker[w].pc = "fetch"}) = job.max_workers
    /\ queue # <<>>

AllCoordinates ==
    Flatten([i \in 1..ZoomCount |->
        LET ts == tile_iter(TileRange(job.bbox[1], job.bbox[2], job.bbox[3],
                                      job.bbox[4], job.zoom_levels[i]))
        IN  [k \in 1..Len(ts) |-> <<i - 1, ts[k][1], ts[k][2]>>]])

RECURSIVE SumFailed(_)
SumFailed(st) == IF st = <<>> THEN 0 ELSE Head(st).failed + SumFailed(Tail(st))

\* C10: a failed fetch increments failed once and halts nothing: a run that
\* is never stopped dispatches every coordinate of every zoom level.
C10_FailureNotFatal ==
    (pc = "done" /\ signal = "finished" /\ ~stop_called) =>
        /\ Len(stats) = ZoomCount
        /\ dispatched = AllCoordinates
        /\ SumFailed(stats) = faults

C10_Witness ==
    /\ pc = "done" /\ ~stop_called
    /\ ZoomCount > 1
    /\ Len(stats) = ZoomCount
    /\ stats[1].failed > 0
    /\ dispatched = AllCoordinates

\* the tile file a dispatched coordinate <<zoom_idx, x, y>> is stored in
FileOf(d) == <<job.zoom_levels[d[1] + 1], d[2], d[3]>>
Dispatches(f) == {k \in 1..Len(dispatched) : FileOf(dispatched[k]) = f}

\* C11 as stated: no tile is requested twice in one run: no GET follows a
\* failed GET for the same tile.
C11_NeverFetchedAgain ==
    \A f \in DOMAIN fetched : Len(fetched[f]) <= 1

\* C11 amended: at most one GET is issued per dispatch of a coordinate; a
\* tile is requested again only when a later zoom level of the list
\* dispatches the same coordinate again.
C11_OneRequestPerDispatch ==
    /\ \A t \in DOMAIN requests :
          /\ requests[t] <= 1
          /\ requests[t] = 1 => fut[t] \notin {"none", "queued", "stopped"}
    /\ \A f \in DOMAIN fetched :
          Len(fetched[f]) <= Cardinality(Dispatches(f))

C11_Witness ==
    /\ pc = "zoom_end" /\ ~stop_requested
    /\ \E t \in DOMAIN fut :
          /\ fut[t] \in {"failed", "error"}
          /\ requests[t] = 1
          /\ fetched[TileFile(t)] # <<HttpOk>>
          /\ Len(fetched[TileFile(t)]) = 1

\* the status of the GET issued for tile t of the current zoom level
StatusOf(t) == fetched[TileFile(t)][Len(fetched[TileFile(t)])]
\* fut and requests describe the zoom level at zoom_idx
ZoomOpen == PoolLive \/ pc = "zoom_end"
Fetched == IF ZoomOpen
           THEN {t \in DOMAIN fut : requests[t] = 1 /\ Done(fut[t])}
           ELSE {}
FileWritten(t) ==
    TileFile(t) \in DOMAIN files /\ files[TileFile(t)] >= 1

\* the counters of the zoom level once its pool has been shut down
CountedByResult ==
    pc = "zoom_end" =>
        /\ downloaded_count = Cardinality(WithResult({"success"}))
        /\ failed_count = Cardinality(WithResult({"failed", "error"}))

\* any other status, an exception or a timeout: failed, no download counted,
\* no tile file
C12_NotOk ==
    \A t \in Fetched : StatusOf(t) # HttpOk =>
        /\ fut[t] \in {"failed", "error"}
        /\ TileFile(t) \notin DOMAIN files

\* C12 as stated: a tile is counted as downloaded and its file is written
\* if and only if its GET returned 200; otherwise it is counted as failed
\* and no tile file is created.
C12_SuccessIffOk ==
    /\ CountedByResult
    /\ C12_NotOk
    /\ \A t \in Fetched :
          StatusOf(t) = HttpOk <=> (fut[t] = "success" /\ FileWritten(t))

\* C12 amended: a tile is counted as downloaded only if its GET returned
\* 200, and then its file is written; a 200 whose file cannot be written is
\* counted as failed; any other status or an exception is counted as failed
\* and creates no tile file.
C12_SuccessOnlyIfOk ==
    /\ CountedByResult
    /\ C12_NotOk
    /\ \A t \in DOMAIN fut : (ZoomOpen /\ fut[t] = "success") =>
          t \in Fetched /\ StatusOf(t) = HttpOk /\ FileWritten(t)
    /\ \A t \in Fetched : StatusOf(t) = HttpOk =>
          \/ fut[t] = "success"
          \/ fut[t] = "error" /\ fs_faults > 0

C12_Witness ==
    /\ pc = "zoom_end"
    /\ downloaded_count > 0 /\ failed_count > 0
    /\ \E t, u \in Fetched :
          /\ StatusOf(t) = HttpOk /\ fut[t] = "success" /\ FileWritten(t)
          /\ StatusOf(u) = 404 /\ fut[u] = "failed"

\* the callbacks made for the zoom level at index k, in order
ProgressOf(k) == SelectSeq(progress, LAMBDA e : e.zoom_idx = k)
RECURSIVE DueFrom(_, _)
DueFrom(c, total) ==
    IF c > total THEN <<>>
    ELSE (IF c % ProgressCadence = 0 \/ c = total THEN <<c>> ELSE <<>>)
         \o DueFrom(c + 1, total)

\* C13: in a zoom level that ran to its end uncancelled the callback was
\* made, in order, at every completion count that is a multiple of 25 and
\* at the completion count equal to the zoom level's total, and at no other.
C13_ProgressCadence ==
    \A i \in 1..Len(stats) :
        LET ps == ProgressOf(i - 1) IN
        /\ [k \in 1..Len(ps) |-> ps[k].completed] = DueFrom(1, stats[i].total)
        /\ \A k \in 1..Len(ps) : ps[k].total = stats[i].total

C13_Witness ==
    \E i \in 1..Len(stats) :
        /\ stats[i].total > ProgressCadence
        /\ stats[i].total % ProgressCadence # 0
        /\ Len(ProgressOf(i - 1)) = 2
        /\ ProgressOf(i - 1)[1].completed = ProgressCadence
        /\ ProgressOf(i - 1)[2].completed = stats[i].total

DispatchedAt(k) ==
    {<<dispatched[i][2], dispatched[i][3]>> :
        i \in {j \in 1..Len(dispatched) : dispatched[j][1] = k}}

C15_Step ==
    /\ zoom_idx' # zoom_idx =>
          /\ zoom_idx' = zoom_idx + 1
          /\ Busy = {} /\ queue = <<>>
          /\ \A t \in DispatchedAt(zoom_idx) : Done(fut[t])
    /\ Len(dispatched') > Len(dispatched) =>
          /\ dispatched'[Len(dispatched')][1] = zoom_idx
          /\ \A k \in 1..Len(dispatched) : dispatched[k][1] <= zoom_idx
          /\ \A w \in Busy : worker[w].task \in DispatchedAt(zoom_idx)
    /\ \A i \in 1..Len(stats') : stats'[i].zoom = job.zoom_levels[i]

\* C15: zoom levels are processed one after another in the order of the
\* list: the index advances by one, only when every coordinate dispatched
\* for it has completed and no worker is busy, and every coordinate is
\* dispatched for the zoom level the index stands at.
C15_ZoomsInOrder == [][C15_Step]_vars

C15_Witness ==
    /\ zoom_idx = 1
    /\ DispatchedAt(0) # {} /\ DispatchedAt(1) # {}
    /\ job.zoom_levels[1] # job.zoom_levels[2]
    /\ \E w \in threads : worker[w].pc = "fetch"

\* the tile range of the zoom level at position i of the list
RangeAt(i) == TileRange(job.bbox[1], job.bbox[2], job.bbox[3], job.bbox[4],
                        job.zoom_levels[i])
Rectangle(r) == (r.x_min..r.x_max) \X (r.y_min..r.y_max)
CountAt(k) == Cardinality({j \in 1..Len(dispatched) : dispatched[j][1] = k})

\* two coordinates submitted one after the other in the same zoom level
Successive(r, a, b) ==
    \/ b[2] = a[2] /\ b[3] = a[3] + 1
    \/ b[2] = a[2] + 1 /\ a[3] = r.y_max /\ b[3] = r.y_min

\* C16: within a zoom level the coordinates are submitted with x ascending
\* in the outer loop and y ascending in the inner loop, starting at
\* (x_min, y_min); a zoom level that ends uncancelled has submitted every
\* coordinate of its range exactly once; the second run of the same job
\* submits the sequence the first run submitted.
C16_RowMajorOnce ==
    /\ \A k \in 1..Len(dispatched) :
          LET d == dispatched[k]
              r == RangeAt(d[1] + 1) IN
          IF k > 1 /\ dispatched[k - 1][1] = d[1]
          THEN Successive(r, dispatched[k - 1], d)
          ELSE d[2] = r.x_min /\ d[3] = r.y_min
    /\ \A i \in 1..Len(stats) :
          /\ DispatchedAt(i - 1) = Rectangle(RangeAt(i))
          /\ CountAt(i - 1) = Cardinality(Rectangle(RangeAt(i)))
    /\ (rerun /\ prev.signal = "finished") =>
          /\ Len(dispatched) <= Len(prev.dispatched)
          /\ dispatched = SubSeq(prev.dispatched, 1, Len(dispatched))
          /\ (pc = "done" /\ signal = "finished")
                => dispatched = prev.dispatched

C16_Witness ==
    /\ rerun /\ pc = "done" /\ signal = "finished"
    /\ dispatched = prev.dispatched
    /\ Len(stats) = 1
    /\ RangeAt(1).x_min < RangeAt(1).x_max
    /\ RangeAt(1).y_min + 1 < RangeAt(1).y_max
    /\ Len(dispatched) = TotalTiles(RangeAt(1))

\* the job's configuration is in error: a worker count that is not positive,
\* or a root directory that cannot be created
ConfigError == job.max_workers < 1 \/ ~job.root_ok

\* C17 as stated: a job whose configuration is in error, and which nobody
\* stops, starts no worker, issues no GET and writes no file, and it ends
\* with the error raised to its caller.
C17_ConfigErrorFails ==
    (ConfigError /\ ~stop_called) =>
        /\ threads = {} /\ dispatched = <<>>
        /\ fetched = NoFetched /\ files = NoFiles
        /\ pc = "done" => signal = "error"

\* C18 as stated: a tile whose directory cannot be made or whose file
\* cannot be written is counted as failed, once, so that at the end of an
\* uncancelled zoom level downloaded + skipped + failed = total still
\* holds, and the job goes on to its end.
C18_FsErrorCounted ==
    /\ pc = "zoom_end" =>
          /\ WithResult({"raised"}) = {}
          /\ downloaded_count + skipped_count + failed_count = total_tiles
    /\ (pc = "done" /\ ~ConfigError) =>
          signal = "finished" /\ Len(stats) = ZoomCount

\* the box of the job with its two corners swapped
Swapped == <<job.bbox[3], job.bbox[4], job.bbox[1], job.bbox[2]>>

\* C19: whichever order the corners are given in, the range
\* estimate_tiles_for_area computes for each zoom has x_min <= x_max and
\* y_min <= y_max, the count it returns is
\* (x_max - x_min + 1) * (y_max - y_min + 1) >= 1, and the box with its
\* corners swapped gives the same range and the same counts and total.
C19_RangeOrdered ==
    estimate.done =>
        /\ Len(estimate.counts) = ZoomCount
        /\ \A i \in 1..ZoomCount :
              LET z == job.zoom_levels[i]
                  r == EstimateRange(job.bbox[1], job.bbox[2], job.bbox[3],
                                     job.bbox[4], z)
                  q == EstimateRange(Swapped[1], Swapped[2], Swapped[3],
                                     Swapped[4], z) IN
              /\ r.x_min <= r.x_max /\ r.y_min <= r.y_max
              /\ estimate.counts[i] =
                    <<z, (r.x_max - r.x_min + 1) * (r.y_max - r.y_min + 1)>>
              /\ estimate.counts[i][2] >= 1
              /\ q = r
        /\ estimate_tiles_for_area(Swapped[1], Swapped[2], Swapped[3],
                                   Swapped[4], job.zoom_levels)
              = [counts |-> estimate.counts, total |-> estimate.total]

C19_Witness ==
    /\ estimate.done
    /\ job.bbox[1] > job.bbox[3] /\ job.bbox[2] > job.bbox[4]
    /\ \E i \in 1..ZoomCount : estimate.counts[i][2] > 1
    /\ estimate.total > ZoomCount

\* C20: for the box and zoom levels of the job, the per-zoom counts of
\* estimate_tiles_for_area are the totals download_area computes, passes
\* to the progress callback and prints, and the number of coordinates it
\* dispatches for the zoom level; the estimated total is the number of
\* coordinates an uncancelled run dispatches.
C20_EstimateMatchesRun ==
    estimate.done =>
        /\ (ZoomOpen \/ pc = "executor") =>
              estimate.counts[zoom_idx + 1] = <<Zoom, total_tiles>>
        /\ \A k \in 1..Len(progress) :
              estimate.counts[progress[k].zoom_idx + 1]
                  = <<progress[k].zoom, progress[k].total>>
        /\ \A i \in 1..Len(stats) :
              /\ estimate.counts[i] = <<stats[i].zoom, stats[i].total>>
              /\ estimate.counts[i][2] = CountAt(i - 1)
        /\ (pc = "done" /\ signal = "finished") =>
              /\ Len(stats) = Len(estimate.counts)
              /\ Len(dispatched) = estimate.total

C20_Witness ==
    /\ estimate.done
    /\ pc = "done" /\ signal = "finished"
    /\ Len(stats) = 2 /\ Len(progress) >= 2
    /\ estimate.counts[1][2] # estimate.counts[2][2]
    /\ Len(dispatched) = estimate.total

\* the two corners of the job's box, as <<lat, lon>>
Corners == {<<job.bbox[1], job.bbox[2]>>, <<job.bbox[3], job.bbox[4]>>}
InGrid(v, zoom) == 0 <= v /\ v < Pow2(zoom)
\* the latitude range of the Web Mercator square, +-85.05113 degrees
InMercator(lat) == -8505113 <= lat /\ lat <= 8505113
Nearest(lat) == IF lat > 8505113 THEN 8505113
                ELSE IF lat < -8505113 THEN -8505113 ELSE lat

\* C21 as stated: for a latitude in [-85.05113, 85.05113] and a longitude
\* in [-180, 180] lat_lon_to_tile returns 0 <= x < 2^zoom and
\* 0 <= y < 2^zoom.
C21_TileInGrid ==
    estimate.done =>
        \A c \in Corners : \A i \in 1..ZoomCount :
            (InMercator(c[1]) /\ -18000000 <= c[2] /\ c[2] <= 18000000) =>
                LET t == lat_lon_to_tile(c[1], c[2], job.zoom_levels[i]) IN
                InGrid(t[1], job.zoom_levels[i])
                    /\ InGrid(t[2], job.zoom_levels[i])

\* C22 as stated: for a latitude outside [-85.05113, 85.05113]
\* lat_lon_to_tile returns the row of the nearest bound of that range, a row
\* in 0 .. 2^zoom - 1.
C22_LatitudeClamped ==
    estimate.done =>
        \A c \in Corners : \A i \in 1..ZoomCount :
            ~InMercator(c[1]) =>
                LET z == job.zoom_levels[i]
                    t == lat_lon_to_tile(c[1], c[2], z)
                    b == lat_lon_to_tile(Nearest(c[1]), c[2], z) IN
                t[2] = b[2] /\ InGrid(t[2], z)

\* C23: for the box (-1, -1) to (1, 1) and the zoom levels [2],
\* estimate_tiles_for_area returns [(2, 4)] and the total 4, and
\* download_area computes the range x in 1..2, y in 1..2 with 4 tiles and
\* dispatches exactly those.
C23_ExampleBox ==
    (job \in JobsExample /\ estimate.done) =>
        /\ estimate.counts = << <<2, 4>> >> /\ estimate.total = 4
        /\ EstimateRange(-100000, -100000, 100000, 100000, 2)
              = [x_min |-> 1, x_max |-> 2, y_min |-> 1, y_max |-> 2]
        /\ ZoomOpen =>
              /\ range = [x_min |-> 1, x_max |-> 2, y_min |-> 1, y_max |-> 2]
              /\ total_tiles = 4
        /\ pc = "done" =>
              /\ DispatchedAt(0) = (1..2) \X (1..2)
              /\ Len(dispatched) = 4

C23_Witness ==
    /\ job \in JobsExample /\ estimate.done
    /\ pc = "done" /\ signal = "finished"
    /\ stats = <<[zoom |-> 2, downloaded |-> 4, skipped |-> 0, failed |-> 0,
                  total |-> 4]>>

\* the column lat_lon_to_tile gives
ColumnOf(lat, lon, zoom) == lat_lon_to_tile(lat, lon, zoom)[1]

\* C24: at a fixed latitude and zoom the column never decreases when the
\* longitude increases.
C24_ColumnMonotone ==
    estimate.done =>
        \A i \in 1..ZoomCount : \A lat \in {job.bbox[1], job.bbox[3]} :
            \A a, b \in {job.bbox[2], job.bbox[4]} :
                a <= b => ColumnOf(lat, a, job.zoom_levels[i])
                              <= ColumnOf(lat, b, job.zoom_levels[i])

C24_Witness ==
    /\ estimate.done
    /\ job.bbox[2] < job.bbox[4]
    /\ \E i, j \in 1..ZoomCount :
          /\ ColumnOf(job.bbox[1], job.bbox[2], job.zoom_levels[i])
                < ColumnOf(job.bbox[1], job.bbox[4], job.zoom_levels[i])
          /\ ColumnOf(job.bbox[1], job.bbox[2], job.zoom_levels[j])
                = ColumnOf(job.bbox[1], job.bbox[4], job.zoom_levels[j])

\* C25: in every state, of a cancelled job or not, the completion count of
\* the zoom level is between 0 and the zoom level's total, and so is every
\* completion count the progress callback was given.
C25_CompletedInRange ==
    /\ 0 <= completed /\ completed <= total_tiles
    /\ \A k \in 1..Len(progress) :
          /\ 0 <= progress[k].completed
          /\ progress[k].completed <= progress[k].total

C25_Witness ==
    /\ pc = "done" /\ observed
    /\ 0 < completed /\ completed < total_tiles
    /\ WithResult({"success"}) # {}

\* a step in which a pool thread takes a work item while the flag is set
C26_Step ==
    /\ (stop_requested /\ queue # <<>> /\ queue' = Tail(queue)) =>
          /\ fut' = [fut EXCEPT ![Head(queue)] = "stopped"]
          /\ requests' = requests /\ fetched' = fetched
          /\ files' = files /\ dirs' = dirs
          /\ downloaded_count' = downloaded_count
          /\ skipped_count' = skipped_count
          /\ failed_count' = failed_count
          /\ worker' = worker
    /\ (stop_requested /\ InArea) => dispatched' = dispatched
    /\ \A t \in DOMAIN fut :
          (ZoomOpen /\ fut[t] = "stopped") =>
              requests[t] = 0 /\ fut'[t] = "stopped"

\* C26: with the flag set no coordinate is dispatched, and a task that was
\* submitted earlier and starts with the flag set returns at once: no GET,
\* no directory, no file, no counter changed.
C26_StoppedAtEntry == [][C26_Step]_vars

C26_Witness ==
    /\ ZoomOpen /\ stop_requested
    /\ \E t, u \in DOMAIN fut :
          /\ fut[t] = "stopped" /\ requests[t] = 0
          /\ TileFile(t) \notin DOMAIN files
          /\ fut[u] = "success"

\* C27: every session was made by the worker that first fetched with it
\* and is used by that worker alone, a worker has at most one session and
\* keeps it for its later fetches, and there are no more sessions than
\* workers that fetched.
C27_SessionPerWorker ==
    /\ \A s \in sessions : s.users = {s.key}
    /\ \A s, r \in sessions : s.key = r.key => s = r
    /\ sessions_made = Cardinality(sessions)
    /\ sessions_made <= Cardinality(UNION {s.users : s \in sessions})
    /\ session \subseteq threads
    /\ PoolLive => \A w \in session : SessionsIn(ThreadOf(w)) # {}

\* the tiles of the zoom level in progress that a GET was sent for
Requested == {t \in DOMAIN requests : requests[t] >= 1}

C27_Witness ==
    /\ PoolLive
    /\ \E s, r \in sessions : s # r /\ s.key[1] = zoom_idx /\ r.key[1] = zoom_idx
    /\ Cardinality(Requested) > Cardinality({s \in sessions : s.key[1] = zoom_idx})

\* the state of the job: download_area is running from its first line to its
\* return or its exception; a job that returned had, or had not, read the flag
\* as set
JobState ==
    CASE pc = "run" -> "Idle"
      [] pc = "done" /\ signal = "error" -> "Failed"
      [] pc = "done" /\ observed -> "Cancelled"
      [] pc = "done" -> "Completed"
      [] OTHER -> "Running"

Terminal == {"Completed", "Cancelled", "Failed"}

\* a job download_area can run: the root directory and the pool can be made
Runnable == job.root_ok /\ (job.zoom_levels = <<>> \/ job.max_workers >= 1)

\* a job in a terminal state stays in it, with the one signal it emitted
TerminalStays ==
    JobState \in Terminal =>
        (JobState' = JobState /\ signal' = signal /\ pc' = pc)

TargetOf(w) == TileFile(worker[w].task)
Queued == {queue[k] : k \in 1..Len(queue)}

\* C29: tasks run only while the pool of their zoom level is open, no two
\* running tasks have the same tile file as their target, and no task waiting
\* in the queue has the target of a running task or of another waiting task.
C29_DisjointPaths ==
    /\ (Busy # {} \/ queue # <<>>) => PoolLive
    /\ \A w, v \in Busy : w # v => TargetOf(w) # TargetOf(v)
    /\ \A w \in Busy : \A t \in Queued : TargetOf(w) # TileFile(t)
    /\ Cardinality(Queued) = Len(queue)

\* in the second pass over a zoom level listed twice, two tasks run at once
\* and one of them is about to write its file
C29_Witness ==
    /\ PoolLive /\ zoom_idx = 1
    /\ job.zoom_levels[1] = job.zoom_levels[2]
    /\ \E w, v \in Busy :
          /\ w # v
          /\ worker[w].pc = "fetch"
          /\ TargetOf(v) \in DOMAIN files

\* the tiles of the zoom level in progress whose mkdir lost a race for the
\* zoom/column directory
RacedNow == {<<r.tile[2], r.tile[3]>> :
                r \in {q \in raced : q.tile[1] = zoom_idx /\ Len(q.dir) = 2}}

\* C30: on a reliable network and disk no mkdir raises and no tile fails,
\* whatever the interleaving of the workers' mkdir steps: a worker past
\* line 95 has its directory, and at the end of a zoom level every tile has
\* its file and is counted as downloaded or skipped.
C30_MkdirRaceTolerated ==
    /\ \A t \in DOMAIN fut : fut[t] \notin {"raised", "failed", "error"}
    /\ PoolLive =>
          \A w \in threads :
              worker[w].pc \in {"exists", "fetch", "acquire", "store"}
                  => ColumnDir(worker[w].task) \in dirs
    /\ pc = "zoom_end" =>
          /\ \A t \in DOMAIN fut :
                fut[t] \in {"success", "skipped"} /\ FileWritten(t)
          /\ downloaded_count + skipped_count = total_tiles
          /\ failed_count = 0

C30_Witness ==
    /\ pc = "zoom_end"
    /\ \E t \in RacedNow : fut[t] = "success" /\ FileWritten(t)

\* after stop_download was invoked nothing is submitted and no zoom level
\* is started
C31_Step ==
    stop_called =>
        /\ dispatched' = dispatched
        /\ ~(pc = "zoom_check" /\ pc' = "executor")

\* C31 as stated: a stop request is never lost: whenever stop_download was
\* invoked after the thread was started, also before download_area has begun
\* or before the downloader exists, no coordinate is dispatched and no zoom
\* level is started from the next poll of the flag on.
C31_StopNeverLost == [][C31_Step]_vars

\* the three counters
Counters == <<downloaded_count, skipped_count, failed_count>>

\* the step of lines 168-170
ResetStep == pc = "zoom_check" /\ pc' = "executor"

\* the counters are reset while no task is queued or running and nobody
\* holds the lock, what the zoom level before counted having been printed;
\* any other change of a counter is made under the lock by a task of the
\* zoom level in progress, while its pool is open
C32_Step ==
    /\ ResetStep =>
          /\ Busy = {} /\ queue = <<>> /\ lock = {} /\ threads = {}
          /\ Unfinished = {}
          /\ Len(stats) = zoom_idx
          /\ zoom_idx > 0 =>
                Counters = <<stats[zoom_idx].downloaded,
                             stats[zoom_idx].skipped, stats[zoom_idx].failed>>
    /\ (Counters' # Counters /\ ~ResetStep) =>
          /\ PoolLive
          /\ \E w \in lock :
                /\ worker[w].task \in DOMAIN fut
                /\ fut[worker[w].task] = "running"
                /\ Done(fut'[worker[w].task])

\* between the with block of one zoom level and the reset for the next
BetweenZooms == pc \in {"zoom_end", "zoom_check", "executor"}

\* C32: from the end of a zoom level's with block to the reset for the next
\* zoom level no task is running, waiting or holding the lock: every
\* increment of a zoom level comes before the reset for the next one, which
\* erases nothing unprinted and is followed by increments of its own zoom
\* level only.
C32_ResetAfterWorkers ==
    /\ [][C32_Step]_vars
    /\ [](BetweenZooms => (Busy = {} /\ queue = <<>> /\ lock = {}))

C32_Witness ==
    /\ pc = "executor" /\ zoom_idx = 1
    /\ Len(stats) = 1 /\ stats[1].downloaded + stats[1].failed > 1
    /\ Counters = <<0, 0, 0>>
    /\ job.max_workers > 1

\* the progress callback is about to be invoked
AtCallback == pc \in {"main_callback", "drain_callback"}
Counted == downloaded_count + skipped_count + failed_count

\* C33 as stated: at every progress callback made while the flag is clear,
\* completed <= downloaded + skipped + failed <= total, and the counters are
\* ahead of completed by at most 4 x max_workers.
C33_CallbackBounds ==
    (AtCallback /\ ~stop_requested) =>
        /\ completed <= Counted
        /\ Counted <= total_tiles
        /\ Counted - completed <= InFlightFactor * job.max_workers

\* two callbacks, the first made before the second
InOrder(a, b) ==
    /\ a.zoom_idx <= b.zoom_idx
    /\ a.zoom_idx = b.zoom_idx =>
          /\ a.completed < b.completed
          /\ a.downloaded <= b.downloaded
          /\ a.skipped <= b.skipped

\* the callback is invoked by the download thread alone, one call at a time
C34_Step ==
    progress' # progress =>
        /\ AtCallback
        /\ progress' = Append(progress, CallbackArgs)
        /\ pc' \in {"dispatch", "drain"}

\* C34: the callbacks are made one at a time by the download thread, and in
\* order: from one callback to the next zoom_idx never decreases, and within
\* a zoom level completed grows strictly while downloaded and skipped never
\* decrease.
C34_CallbacksInOrder ==
    /\ [](\A i, j \in 1..Len(progress) :
            i < j => InOrder(progress[i], progress[j]))
    /\ [][C34_Step]_vars

C34_Witness ==
    \E i, j \in 1..Len(progress) :
        /\ i < j
        /\ progress[i].zoom_idx = progress[j].zoom_idx
        /\ progress[i].completed < progress[j].completed
        /\ progress[i].downloaded < progress[j].downloaded

\* some GET of the run recorded in fs returned 200 for file f
Got200(fs, f) == f \in DOMAIN fs /\ \E k \in 1..Len(fs[f]) : fs[f][k] = HttpOk

\* the files for which the first run sent a GET and every GET failed
FailedBefore == {f \in DOMAIN prev.fetched : ~Got200(prev.fetched, f)}

Estimating == estimate.done /\ pc \in {"run", "declined"}

\* C36 as stated: obtaining the estimate has no side effect: once it is
\* shown, and also after the user has declined, no directory and no file
\* was made, no GET was sent, and the counters and the flag are as before.
C36_EstimateNoEffect ==
    Estimating =>
        /\ dirs = {} /\ DOMAIN files = {}
        /\ DOMAIN fetched = {} /\ sessions_made = 0
        /\ Counters = <<0, 0, 0>> /\ ~stop_requested

\* the files a live thread has open for writing, and the empty or partial
\* files nobody is writing: what a process that died left behind
BeingWritten ==
    {<<job.zoom_levels[zoom_idx + 1], worker[w].task[1], worker[w].task[2]>> :
        w \in {v \in threads : worker[v].pc = "write"}}
Leftover == {f \in DOMAIN files : files[f] = 0} \ BeingWritten

\* in the run after the crash a partial file stays as it is
C37_Step == rerun => Leftover \subseteq Leftover'

\* C37: a file left partial by a process that died mid-write stays partial
\* in the run that follows: its tile is classified as skipped and no GET is
\* sent for it.
C37_PartialFileKept ==
    /\ [](rerun => \A f \in Leftover : f \notin DOMAIN fetched)
    /\ []((rerun /\ ZoomOpen) =>
            \A t \in DOMAIN fut :
                TileFile(t) \in Leftover =>
                    /\ requests[t] = 0
                    /\ fut[t] \in {"none", "queued", "running", "skipped"})
    /\ [][C37_Step]_vars

C37_Witness ==
    /\ rerun /\ pc = "done" /\ signal = "finished"
    /\ Leftover # {}
    /\ Len(stats) = 2
    /\ stats[1].downloaded >= 1 /\ stats[1].skipped >= 2
    /\ AllSkipped(stats[2])

====
